---- MODULE Spec2Model ----
(***************************************************************************)
(* training/loss.py: StyleGAN2Loss.accumulate_gradients and its subclass   *)
(* StyleGAN2Loss_noface.accumulate_gradients.                              *)
(*                                                                         *)
(* Numbers are exact rationals <<numerator, denominator>> (denominator > 0,*)
(* lowest terms): the float rounding of the tensor library is not          *)
(* modelled.  The generator, the discriminator, autograd and the face      *)
(* detector are external: what they return for a sample is part of the     *)
(* sample (its softplus losses, its path length, its R1 penalty, the       *)
(* detector's answer).  An optional Python value is <<>> (None) or <<v>>.  *)
(***************************************************************************)
EXTENDS Integers, Sequences, FiniteSets, TLC

VARIABLES self, last, ncalls

vars == <<self, last, ncalls>>

(* ------------------------------ bounds -------------------------------- *)

\* accumulate_gradients calls in one run of Spec
MaxCalls == 2
\* cur_nimg ranges over 0, 250, ..., 250 * MaxNimgSteps in SpecBlur
MaxNimgSteps == 8
\* the path-length term is explored while the denominator of pl_mean stays
\* within MaxPlDen (the penalty squares it)
MaxPlDen == 100

(* ------------------------- exact arithmetic --------------------------- *)

Abs(x) == IF x < 0 THEN -x ELSE x

RECURSIVE Gcd(_, _)
Gcd(a, b) == IF b = 0 THEN a ELSE Gcd(b, a % b)

Rat(n, d) ==
    LET g == Gcd(Abs(n), Abs(d))
        s == IF d < 0 THEN -1 ELSE 1
    IN  <<(s * n) \div g, (s * d) \div g>>

Zero == <<0, 1>>
One == <<1, 1>>
Num(n) == <<n, 1>>

RAdd(a, b) ==
    LET g == Gcd(a[2], b[2])
    IN  Rat(a[1] * (b[2] \div g) + b[1] * (a[2] \div g), (a[2] \div g) * b[2])

RNeg(a) == <<-a[1], a[2]>>

RSub(a, b) == RAdd(a, RNeg(b))

RMul(a, b) ==
    LET g1 == Gcd(Abs(a[1]), b[2])
        g2 == Gcd(Abs(b[1]), a[2])
    IN  Rat((a[1] \div g1) * (b[1] \div g2), (a[2] \div g2) * (b[2] \div g1))

\* a / b for b # 0
RDiv(a, b) == RMul(a, Rat(b[2], b[1]))

RLt(a, b) == a[1] * b[2] < b[1] * a[2]

RLeq(a, b) == a[1] * b[2] <= b[1] * a[2]

\* Python's max(a, b): the first of the largest
PyMax(a, b) == IF RLt(a, b) THEN b ELSE a

Square(a) == RMul(a, a)

\* torch.nn.functional.relu
Relu(a) == IF RLt(a, Zero) THEN Zero ELSE a

RECURSIVE SumSeq(_)
SumSeq(xs) == IF xs = <<>> THEN Zero ELSE RAdd(xs[1], SumSeq(Tail(xs)))

\* Tensor.mean() of a non-empty vector
Mean(xs) == RDiv(SumSeq(xs), Num(Len(xs)))

\* Tensor.lerp(end, weight) = start + weight * (end - start)
Lerp_swapped(start, end, weight) == RAdd(end, RMul(weight, RSub(start, end)))

Lerp(start, end, weight) == RAdd(start, RMul(weight, RSub(end, start)))

None == <<>>
Some(v) == <<v>>

(* ------------------------------ phases -------------------------------- *)

PHASES == {"Gmain", "Greg", "Gboth", "Dmain", "Dreg", "Dboth"}

ValidPhase_any(phase) == TRUE

\* assert phase in ['Gmain', 'Greg', 'Gboth', 'Dmain', 'Dreg', 'Dboth']
ValidPhase(phase) == phase \in PHASES

\* if self.pl_weight == 0: phase = {'Greg': 'none', 'Gboth': 'Gmain'}.get(phase, phase)
NormalizePl(phase, pl_weight) ==
    IF pl_weight = Zero
    THEN IF phase = "Greg" THEN "none" ELSE IF phase = "Gboth" THEN "Gmain" ELSE phase
    ELSE phase

NormalizeR1_skipped(phase, r1_gamma) == phase

\* if self.r1_gamma == 0: phase = {'Dreg': 'none', 'Dboth': 'Dmain'}.get(phase, phase)
NormalizeR1(phase, r1_gamma) ==
    IF r1_gamma = Zero
    THEN IF phase = "Dreg" THEN "none" ELSE IF phase = "Dboth" THEN "Dmain" ELSE phase
    ELSE phase

NormalizePhase(phase, pl_weight, r1_gamma) ==
    NormalizeR1(NormalizePl(phase, pl_weight), r1_gamma)

\* the guards of the five terms, on the normalized phase
RunsGmain(phase) == phase \in {"Gmain", "Gboth"}

RunsGpl_onGmain(phase) == phase \in {"Gmain", "Gboth"}

RunsGpl(phase) == phase \in {"Greg", "Gboth"}

RunsDgen(phase) == phase \in {"Dmain", "Dboth"}

RunsDrealBlock(phase) == phase \in {"Dmain", "Dreg", "Dboth"}

RunsDreal(phase) == phase \in {"Dmain", "Dboth"}

RunsDr1(phase) == phase \in {"Dreg", "Dboth"}

\* name = 'Dreal' if phase == 'Dmain' else 'Dr1' if phase == 'Dreg' else 'Dreal_Dr1'
DrealName(phase) ==
    IF phase = "Dmain" THEN "Dreal" ELSE IF phase = "Dreg" THEN "Dr1" ELSE "Dreal_Dr1"

(* --------------------------- blur schedule ---------------------------- *)

BlurSigma_unclamped(cur_nimg, blur_fade_kimg, blur_init_sigma) ==
    IF RLt(Zero, blur_fade_kimg)
    THEN RMul(RSub(One, RDiv(Num(cur_nimg), RMul(blur_fade_kimg, Num(1000)))),
              blur_init_sigma)
    ELSE Zero

\* max(1 - cur_nimg / (self.blur_fade_kimg * 1e3), 0) * self.blur_init_sigma
\*     if self.blur_fade_kimg > 0 else 0
BlurSigma(cur_nimg, blur_fade_kimg, blur_init_sigma) ==
    IF RLt(Zero, blur_fade_kimg)
    THEN RMul(PyMax(RSub(One, RDiv(Num(cur_nimg), RMul(blur_fade_kimg, Num(1000)))),
                    Zero),
              blur_init_sigma)
    ELSE Zero

(* ------------------------- the base loss terms ------------------------ *)

\* the value of a field f of every sample of a batch
Column(batch, f) == [i \in 1..Len(batch) |-> batch[i][f]]

Ev(kind, name) == <<kind, name>>

\* Gmain: run_G, run_D, three reports, backward
GmainEvents ==
    << Ev("run_G", "Gmain"), Ev("run_D", "Gmain"),
       Ev("report", "Loss/scores/fake"), Ev("report", "Loss/signs/fake"),
       Ev("report", "Loss/G/loss"), Ev("backward", "Gmain") >>

\* loss_Gmain.mean().item(), loss_Gmain = softplus(-gen_logits)
GmainValue(batch) == Mean(Column(batch, "gl"))

\* gen_z[:batch_size], batch_size = gen_z.shape[0] // self.pl_batch_shrink
PlBatch(batch, pl_batch_shrink) == SubSeq(batch, 1, Len(batch) \div pl_batch_shrink)

\* pl_lengths of the shrunk batch
PlLengths(batch, pl_batch_shrink) == Column(PlBatch(batch, pl_batch_shrink), "pl")

\* pl_mean = self.pl_mean.lerp(pl_lengths.mean(), self.pl_decay)
PlMean(self_pl_mean, pl_lengths, pl_decay) == Lerp(self_pl_mean, Mean(pl_lengths), pl_decay)

\* pl_penalty = (pl_lengths - pl_mean).square(), pl_mean the local (updated) mean
PlPenalty(pl_lengths, pl_mean) ==
    [i \in 1..Len(pl_lengths) |-> Square(RSub(pl_lengths[i], pl_mean))]

\* loss_Gpl = pl_penalty * self.pl_weight; loss_Gpl.mean().item()
GplValue(pl_penalty, pl_weight) ==
    Mean([i \in 1..Len(pl_penalty) |-> RMul(pl_penalty[i], pl_weight)])

GplEvents ==
    << Ev("run_G", "Gpl"), Ev("report", "Loss/pl_penalty"),
       Ev("report", "Loss/G/reg"), Ev("backward", "Gpl") >>

\* Dgen: run_G, run_D, two reports, backward
DgenEvents ==
    << Ev("run_G", "Dgen"), Ev("run_D", "Dgen"),
       Ev("report", "Loss/scores/fake"), Ev("report", "Loss/signs/fake"),
       Ev("backward", "Dgen") >>

\* loss_Dgen.mean().item(), loss_Dgen = softplus(gen_logits)
DgenValue(batch) == Mean(Column(batch, "dg"))

\* loss_Dreal.mean().item(), loss_Dreal = softplus(-real_logits)
DrealValue(batch) == Mean(Column(batch, "dr"))

\* loss_Dr1 = r1_penalty * (self.r1_gamma / 2); loss_Dr1.mean().item()
Dr1Value(batch, r1_gamma) ==
    Mean([i \in 1..Len(batch) |-> RMul(batch[i].r1, RDiv(r1_gamma, Num(2)))])

\* the Dreal / Dr1 block: one forward pass and one backward call for both
DrealEvents(phase) ==
    << Ev("run_D", DrealName(phase)),
       Ev("report", "Loss/scores/real"), Ev("report", "Loss/signs/real") >>
    \o (IF RunsDreal(phase) THEN << Ev("report", "Loss/D/loss") >> ELSE <<>>)
    \o (IF RunsDr1(phase)
        THEN << Ev("report", "Loss/r1_penalty"), Ev("report", "Loss/D/reg") >>
        ELSE <<>>)
    \o << Ev("backward", DrealName(phase)) >>

RECURSIVE SumPresent(_)
SumPresent(values) ==
    IF values = <<>> THEN Zero
    ELSE IF values[1] = None THEN SumPresent(Tail(values))
    ELSE RAdd(values[1][1], SumPresent(Tail(values)))

TotalPenalty_noDr1(values) == SumPresent(SubSeq(values, 1, 4))

\* sum(value for value in [loss_Gmain_value, ..., loss_Dr1_value] if value is not None)
TotalPenalty(values) == SumPresent(values)

\* the two summary lines of the base class
PrintEvents(phase) ==
    (IF phase \in {"Gmain", "Gboth"} THEN << Ev("print", "G") >> ELSE <<>>)
    \o (IF phase \in {"Dmain", "Dboth"} THEN << Ev("print", "D") >> ELSE <<>>)

(* ----------------- StyleGAN2Loss.accumulate_gradients ----------------- *)

\* What one call of the base class computes from the object s and its
\* arguments: the object afterwards, the forward passes, backward calls,
\* reports and prints in order, and the values of the call's locals.
BaseCall(s, phase, batch, cur_nimg) ==
    IF ~ValidPhase(phase)
    THEN [ ok |-> FALSE, self |-> s, events |-> <<>>, nphase |-> phase,
           blur_sigma |-> None,
           loss_Gmain_value |-> None, loss_Gpl_value |-> None,
           loss_Dgen_value |-> None, loss_Dreal_value |-> None,
           loss_Dr1_value |-> None, total_penalty |-> None,
           pl_lengths |-> <<>>, pl_penalty |-> <<>> ]
    ELSE
    LET nphase == NormalizePhase(phase, s.pl_weight, s.r1_gamma)
        blur_sigma == BlurSigma(cur_nimg, s.blur_fade_kimg, s.blur_init_sigma)
        loss_Gmain_value == IF RunsGmain(nphase) THEN Some(GmainValue(batch)) ELSE None
        pl_lengths == IF RunsGpl(nphase) THEN PlLengths(batch, s.pl_batch_shrink) ELSE <<>>
        pl_mean == IF RunsGpl(nphase)
                   THEN PlMean(s.pl_mean, pl_lengths, s.pl_decay)
                   ELSE s.pl_mean
        pl_penalty == IF RunsGpl(nphase) THEN PlPenalty(pl_lengths, pl_mean) ELSE <<>>
        loss_Gpl_value == IF RunsGpl(nphase)
                          THEN Some(GplValue(pl_penalty, s.pl_weight))
                          ELSE None
        loss_Dgen_value == IF RunsDgen(nphase) THEN Some(DgenValue(batch)) ELSE None
        loss_Dreal_value == IF RunsDrealBlock(nphase) /\ RunsDreal(nphase)
                            THEN Some(DrealValue(batch))
                            ELSE None
        loss_Dr1_value == IF RunsDrealBlock(nphase) /\ RunsDr1(nphase)
                          THEN Some(Dr1Value(batch, s.r1_gamma))
                          ELSE None
        total_penalty == TotalPenalty(<<loss_Gmain_value, loss_Gpl_value, loss_Dgen_value,
                                        loss_Dreal_value, loss_Dr1_value>>)
        events == (IF RunsGmain(nphase) THEN GmainEvents ELSE <<>>)
                  \o (IF RunsGpl(nphase) THEN GplEvents ELSE <<>>)
                  \o (IF RunsDgen(nphase) THEN DgenEvents ELSE <<>>)
                  \o (IF RunsDrealBlock(nphase) THEN DrealEvents(nphase) ELSE <<>>)
                  \o << Ev("report", "Loss/Total_penalty") >>
                  \o PrintEvents(nphase)
    IN  [ ok |-> TRUE, self |-> [s EXCEPT !.pl_mean = pl_mean], events |-> events,
          nphase |-> nphase, blur_sigma |-> Some(blur_sigma),
          loss_Gmain_value |-> loss_Gmain_value, loss_Gpl_value |-> loss_Gpl_value,
          loss_Dgen_value |-> loss_Dgen_value, loss_Dreal_value |-> loss_Dreal_value,
          loss_Dr1_value |-> loss_Dr1_value, total_penalty |-> Some(total_penalty),
          pl_lengths |-> pl_lengths, pl_penalty |-> pl_penalty ]

(* -------------- StyleGAN2Loss_noface.accumulate_gradients ------------- *)

\* The detector's answers for one image.
DetRaise == [raises |-> TRUE, none |-> FALSE, probs |-> <<>>]
DetNone == [raises |-> FALSE, none |-> TRUE, probs |-> <<>>]
DetEmpty == [raises |-> FALSE, none |-> FALSE, probs |-> <<>>]
DetNoneProb == [raises |-> FALSE, none |-> FALSE, probs |-> <<None>>]
DetFace(p) == [raises |-> FALSE, none |-> FALSE, probs |-> <<Some(p)>>]
DetFaces(p, q) == [raises |-> FALSE, none |-> FALSE, probs |-> <<Some(p), Some(q)>>]

FaceProb_last(det) ==
    IF det.raises THEN Zero
    ELSE IF ~det.none /\ Len(det.probs) > 0 /\ det.probs[Len(det.probs)] # None
         THEN det.probs[Len(det.probs)][1]
         ELSE Zero

\* try: face_probs.append(probs[0] if probs is not None and len(probs) > 0
\*                        and probs[0] is not None else 0.0)
\* except Exception: face_probs.append(0.0)
FaceProb(det) ==
    IF det.raises THEN Zero
    ELSE IF ~det.none /\ Len(det.probs) > 0 /\ det.probs[1] # None
         THEN det.probs[1][1]
         ELSE Zero

\* for i, img in enumerate(gen_img): one entry per image, in order
FaceProbs(batch) == [i \in 1..Len(batch) |-> FaceProb(batch[i].det)]

\* torch.nn.functional.relu(face_probs - 0.5).mean()
FacePenalty(face_probs) ==
    Mean([i \in 1..Len(face_probs) |-> Relu(RSub(face_probs[i], <<1, 2>>))])

Ema_swapped(old, current, smoothing) ==
    RAdd(RMul(RSub(One, smoothing), old), RMul(smoothing, current))

\* self.smoothing * old + (1 - self.smoothing) * current
Ema(old, current, smoothing) ==
    RAdd(RMul(smoothing, old), RMul(RSub(One, smoothing), current))

\* 1 / 1e-8
EpsilonInv == 100000000

\* x >= m * 1e-8 for m >= 0, without leaving the 32-bit integers:
\* for a, b > 0, a * EpsilonInv >= b iff ceil(b / a) <= EpsilonInv
GeqTimesEpsilon(x, m) ==
    IF x[1] <= 0 THEN x[1] = 0 /\ m[1] = 0
    ELSE LET a == x[1] * m[2]
             b == m[1] * x[2]
         IN  (b + a - 1) \div a <= EpsilonInv

\* A lambda is num / (den + eps * 1e-8), eps 0 or 1, kept symbolic.
Plain(v) == [num |-> v, den |-> One, eps |-> 0]

\* running_g_loss / (face_penalty + 1e-8) >= min_lambda, for face_penalty > 0
RatioGeq(running_g_loss, face_penalty, min_lambda) ==
    GeqTimesEpsilon(RSub(running_g_loss, RMul(min_lambda, face_penalty)), min_lambda)

AdaptiveLambda_nofloor(running_g_loss, face_penalty, min_lambda) ==
    [num |-> running_g_loss, den |-> face_penalty, eps |-> 1]

\* max(self.running_g_loss / (face_penalty.item() + 1e-8), self.min_lambda)
AdaptiveLambda(running_g_loss, face_penalty, min_lambda) ==
    IF RatioGeq(running_g_loss, face_penalty, min_lambda)
    THEN [num |-> running_g_loss, den |-> face_penalty, eps |-> 1]
    ELSE Plain(min_lambda)

\* if phase in ['Gmain', 'Gboth', 'Dmain', 'Dboth'], on the phase as passed
RunsFeedback(phase) == phase \in {"Gmain", "Gboth", "Dmain", "Dboth"}

FeedbackG(phase) == phase \in {"Gmain", "Gboth"}

FeedbackD(phase) == phase \in {"Dmain", "Dboth"}

DetectEvents(batch) == [i \in 1..Len(batch) |-> Ev("detect", "face_detector")]

FeedbackEvents(phase, batch) ==
    << Ev("run_G", "G_D_direct_feedback") >>
    \o DetectEvents(batch)
    \o << Ev("run_D", "G_D_direct_feedback") >>
    \o (IF FeedbackG(phase) THEN << Ev("backward", "total_loss_G") >> ELSE <<>>)
    \o (IF FeedbackD(phase)
        THEN << Ev("run_D", "d_logits_real"), Ev("run_D", "d_logits_fake"),
                Ev("backward", "total_loss_D") >>
        ELSE <<>>)
    \o << Ev("report", "Loss/G/face_penalty"), Ev("report", "Loss/D/face_penalty"),
          Ev("report", "Loss/G/total_loss"), Ev("report", "Loss/D/total_loss"),
          Ev("report", "Loss/G/lambda_face_penalty"), Ev("print", "feedback") >>

NoFeedback == [face_probs |-> <<>>, face_penalty |-> None, g_loss |-> None, d_loss |-> None]

\* What one call of the subclass computes: the base call, then the feedback
\* block on the phase the caller passed.
NofaceCall(s, phase, batch, cur_nimg) ==
    LET base == BaseCall(s, phase, batch, cur_nimg)
    IN  IF ~base.ok \/ ~RunsFeedback(phase)
        THEN base @@ NoFeedback
        ELSE
        LET s1 == base.self
            face_probs == FaceProbs(batch)
            face_penalty == FacePenalty(face_probs)
            g_loss == Mean(Column(batch, "gl"))
            running_g_loss == Ema(s1.running_g_loss, g_loss, s1.smoothing)
            running_face_penalty == Ema(s1.running_face_penalty, face_penalty, s1.smoothing)
            lambda_face_penalty ==
                IF RLt(Zero, face_penalty)
                THEN AdaptiveLambda(running_g_loss, face_penalty, s1.min_lambda)
                ELSE s1.lambda_face_penalty
            d_loss == RAdd(Mean(Column(batch, "dr")), Mean(Column(batch, "dg")))
            running_d_loss == IF FeedbackD(phase)
                              THEN Ema(s1.running_d_loss, d_loss, s1.smoothing)
                              ELSE s1.running_d_loss
            s2 == [s1 EXCEPT !.running_g_loss = running_g_loss,
                             !.running_face_penalty = running_face_penalty,
                             !.lambda_face_penalty = lambda_face_penalty,
                             !.running_d_loss = running_d_loss]
        IN  [base EXCEPT !.self = s2,
                         !.events = base.events \o FeedbackEvents(phase, batch)]
            @@ [face_probs |-> face_probs, face_penalty |-> Some(face_penalty),
                g_loss |-> Some(g_loss),
                d_loss |-> IF FeedbackD(phase) THEN Some(d_loss) ELSE None]

(* ------------------------------ inputs -------------------------------- *)

\* A sample of a batch: what the external networks return for it.
\*   gl  softplus(-D(G(z)))      dg  softplus(D(G(z)))     dr  softplus(-D(real))
\*   r1  the R1 penalty          pl  the path length       det the detector's answer
Sample(gl, dg, dr, r1, pl, det) ==
    [gl |-> gl, dg |-> dg, dr |-> dr, r1 |-> r1, pl |-> pl, det |-> det]

S1 == Sample(Num(1), Num(2), <<1, 2>>, Num(3), Num(2), DetFace(<<51, 100>>))
S2 == Sample(Num(3), Num(1), Num(1), Zero, Zero, DetRaise)
S3 == Sample(Num(2), <<1, 2>>, Num(2), Num(1), Num(3), DetFace(<<9, 10>>))
S4 == Sample(Num(1), Num(1), Num(2), Num(2), Num(1), DetNone)
S5 == Sample(Num(2), Num(3), Num(1), Zero, Num(2), DetEmpty)
S6 == Sample(Num(3), Num(2), <<3, 2>>, Num(2), Num(1), DetNoneProb)
S7 == Sample(Num(1), Num(1), Num(1), Num(1), Num(2), DetFaces(<<3, 5>>, <<9, 10>>))

\* the batches of the calls
Batches == { <<S1, S2>>, <<S4, S5>>, <<S3, S6, S7, S1>> }

\* the six phases and one that is none of them
AnyPhase == PHASES \cup {"Gall"}

NimgValues == { 250 * k : k \in 0..MaxNimgSteps }

(* ---------------------------- construction ---------------------------- *)

\* StyleGAN2Loss.__init__ and StyleGAN2Loss_noface.__init__
New(cls, r1_gamma, pl_weight, pl_decay, blur_init_sigma, blur_fade_kimg) ==
    [ cls |-> cls, r1_gamma |-> r1_gamma, pl_weight |-> pl_weight,
      pl_batch_shrink |-> 2, pl_decay |-> pl_decay, pl_mean |-> Zero,
      blur_init_sigma |-> blur_init_sigma, blur_fade_kimg |-> blur_fade_kimg,
      lambda_face_penalty |-> Plain(Num(10)), smoothing |-> <<99, 100>>,
      running_g_loss |-> Zero, running_d_loss |-> Zero,
      running_face_penalty |-> Zero, min_lambda |-> <<1, 4>> ]

\* no call yet
NoCall ==
    [ called |-> FALSE, phase |-> "none", batch |-> <<>>, cur_nimg |-> 0,
      prev_called |-> FALSE, prev_nimg |-> 0, prev_sigma |-> None,
      ok |-> FALSE, events |-> <<>>, nphase |-> "none", blur_sigma |-> None,
      loss_Gmain_value |-> None, loss_Gpl_value |-> None,
      loss_Dgen_value |-> None, loss_Dreal_value |-> None,
      loss_Dr1_value |-> None, total_penalty |-> None,
      pl_lengths |-> <<>>, pl_penalty |-> <<>> ] @@ NoFeedback

Init ==
    /\ \E cls \in {"StyleGAN2Loss", "StyleGAN2Loss_noface"},
          r1_gamma \in {Zero, Num(10)}, pl_weight \in {Zero, Num(2)},
          pl_decay \in {<<1, 100>>, <<1, 2>>} :
          self = New(cls, r1_gamma, pl_weight, pl_decay, Num(2), One)
    /\ last = NoCall
    /\ ncalls = 0

(* ------------------------------ actions ------------------------------- *)

\* what the call observes, kept for the properties
Observed(phase, batch, cur_nimg, result) ==
    [ called |-> TRUE, phase |-> phase, batch |-> batch, cur_nimg |-> cur_nimg,
      pre |-> self, prev_called |-> last.called, prev_nimg |-> last.cur_nimg,
      prev_sigma |-> last.blur_sigma ] @@ result

\* StyleGAN2Loss.accumulate_gradients(phase, ..., cur_nimg)
AccumulateGradients(phase, batch, cur_nimg) ==
    /\ self.cls = "StyleGAN2Loss"
    /\ LET result == BaseCall(self, phase, batch, cur_nimg) @@ NoFeedback
       IN  /\ self' = result.self
           /\ last' = Observed(phase, batch, cur_nimg, result)

\* StyleGAN2Loss_noface.accumulate_gradients(phase, ..., cur_nimg)
AccumulateGradientsNoface(phase, batch, cur_nimg) ==
    /\ self.cls = "StyleGAN2Loss_noface"
    /\ LET result == NofaceCall(self, phase, batch, cur_nimg)
       IN  /\ self' = result.self
           /\ last' = Observed(phase, batch, cur_nimg, result)

\* The path-length term is explored while its arithmetic stays exact.
PlExact(phase) ==
    RunsGpl(NormalizePhase(phase, self.pl_weight, self.r1_gamma))
        => self.pl_mean[2] * self.pl_decay[2] <= MaxPlDen

Next ==
    /\ ncalls < MaxCalls
    /\ ncalls' = ncalls + 1
    /\ \E phase \in AnyPhase, batch \in Batches :
          /\ PlExact(phase)
          /\ \/ AccumulateGradients(phase, batch, 500 * ncalls)
             \/ AccumulateGradientsNoface(phase, batch, 500 * ncalls)

Spec == Init /\ [][Next]_vars

\* The blur schedule: calls of the base class at any cur_nimg.
InitBlur ==
    /\ \E blur_init_sigma \in {Zero, Num(2), <<1, 2>>},
          blur_fade_kimg \in {Zero, One, Num(2), <<1, 2>>} :
          self = New("StyleGAN2Loss", Num(10), Zero, <<1, 100>>,
                     blur_init_sigma, blur_fade_kimg)
    /\ last = NoCall
    /\ ncalls = 0

NextBlur ==
    /\ UNCHANGED ncalls
    /\ \E phase \in {"Gmain", "Dmain"}, cur_nimg \in NimgValues :
          AccumulateGradients(phase, <<S1, S2>>, cur_nimg)

SpecBlur == InitBlur /\ [][NextBlur]_vars

(* ----------------------------- properties ----------------------------- *)

\* how often an event of this kind and name occurs in the last call
Count(kind, name) ==
    Cardinality({i \in 1..Len(last.events) : last.events[i] = <<kind, name>>})

\* how often an event of this kind occurs in the last call
CountKind(kind) ==
    Cardinality({i \in 1..Len(last.events) : last.events[i][1] = kind})

Bit(b) == IF b THEN 1 ELSE 0

Returned == last.called /\ last.ok

\* the terms the phase as passed selects, given pl_weight and r1_gamma
SelGmain == last.phase \in {"Gmain", "Gboth"}
SelGpl == last.phase \in {"Greg", "Gboth"} /\ last.pre.pl_weight # Zero
SelDmain == last.phase \in {"Dmain", "Dboth"}
SelDr1 == last.phase \in {"Dreg", "Dboth"} /\ last.pre.r1_gamma # Zero

\* C1: in every call that returns, Gmain runs iff the phase is Gmain or Gboth,
\* Gpl iff it is Greg or Gboth and pl_weight # 0, Dgen and Dreal iff it is
\* Dmain or Dboth, Dr1 iff it is Dreg or Dboth and r1_gamma # 0; a term that
\* does not run has no value, no forward pass, no backward call, no report of
\* its own, and pl_mean changes only when Gpl runs.
C1_TermsFollowPhase ==
    Returned =>
        /\ (last.loss_Gmain_value # None) <=> SelGmain
        /\ (last.loss_Gpl_value # None) <=> SelGpl
        /\ (last.loss_Dgen_value # None) <=> SelDmain
        /\ (last.loss_Dreal_value # None) <=> SelDmain
        /\ (last.loss_Dr1_value # None) <=> SelDr1
        /\ \A kind \in {"run_G", "run_D", "backward"} :
              Count(kind, "Gmain") = Bit(SelGmain)
        /\ \A kind \in {"run_G", "backward"} : Count(kind, "Gpl") = Bit(SelGpl)
        /\ Count("run_D", "Gpl") = 0
        /\ \A kind \in {"run_G", "run_D", "backward"} :
              Count(kind, "Dgen") = Bit(SelDmain)
        /\ \A kind \in {"run_D", "backward"} :
              /\ Count(kind, "Dreal") = Bit(SelDmain /\ ~SelDr1)
              /\ Count(kind, "Dr1") = Bit(SelDr1 /\ ~SelDmain)
              /\ Count(kind, "Dreal_Dr1") = Bit(SelDmain /\ SelDr1)
        /\ Count("report", "Loss/G/loss") = Bit(SelGmain)
        /\ Count("report", "Loss/pl_penalty") = Bit(SelGpl)
        /\ Count("report", "Loss/G/reg") = Bit(SelGpl)
        /\ Count("report", "Loss/D/loss") = Bit(SelDmain)
        /\ Count("report", "Loss/r1_penalty") = Bit(SelDr1)
        /\ Count("report", "Loss/D/reg") = Bit(SelDr1)
        /\ ~SelGpl => self.pl_mean = last.pre.pl_mean
        /\ self.cls = "StyleGAN2Loss" =>
              self = [last.pre EXCEPT !.pl_mean = self.pl_mean]
              /\ CountKind("run_G") = Bit(SelGmain) + Bit(SelGpl) + Bit(SelDmain)
              /\ CountKind("run_D") = Bit(SelGmain) + Bit(SelDmain) + Bit(SelDmain \/ SelDr1)
              /\ CountKind("backward")
                    = Bit(SelGmain) + Bit(SelGpl) + Bit(SelDmain) + Bit(SelDmain \/ SelDr1)

\* a Dboth call with r1_gamma = 0: Dgen and Dreal ran, Dr1 did not
C1_Witness ==
    /\ Returned /\ last.phase = "Dboth"
    /\ last.pre.r1_gamma = Zero /\ last.pre.pl_weight # Zero
    /\ last.loss_Dreal_value # None /\ last.loss_Dgen_value # None
    /\ last.loss_Dr1_value = None
    /\ Count("backward", "Dreal") = 1

\* C2 as stated: after a call with a phase not in {Gmain, Gboth}, pl_mean is
\* unchanged.
C2_Original ==
    (last.called /\ last.phase \notin {"Gmain", "Gboth"}) =>
        self.pl_mean = last.pre.pl_mean

\* C2: after a call with a phase not in {Greg, Gboth}, pl_mean is unchanged
\* and no path-length computation occurred, whatever pl_weight and r1_gamma.
C2_PlMeanFrame ==
    (last.called /\ last.phase \notin {"Greg", "Gboth"}) =>
        /\ self.pl_mean = last.pre.pl_mean
        /\ last.pl_lengths = <<>>
        /\ Count("run_G", "Gpl") = 0

\* a Gmain call, with pl_weight # 0, on an object whose pl_mean an earlier
\* call had moved
C2_Witness ==
    /\ Returned /\ last.phase = "Gmain"
    /\ last.pre.pl_weight # Zero
    /\ last.pre.pl_mean # Zero
    /\ self.pl_mean = last.pre.pl_mean

\* no forward pass, backward call or report in the last call
NoPassNoReport ==
    /\ CountKind("run_G") = 0
    /\ CountKind("run_D") = 0
    /\ CountKind("backward") = 0
    /\ CountKind("report") = 0

\* C3: with pl_weight = 0, a call with phase Greg performs no forward pass,
\* no backward call and no report to the statistics sink.
C3_GregIsSilent ==
    (last.called /\ last.phase = "Greg" /\ last.pre.pl_weight = Zero) => NoPassNoReport

\* C4: a call fails iff its phase is none of the six, in either class; a failed
\* call has run no pass, reported and printed nothing, and left pl_mean, the
\* three running values and lambda_face_penalty as they were.
C4_BadPhaseFails ==
    last.called =>
        /\ last.ok <=>
              last.phase \in {"Gmain", "Greg", "Gboth", "Dmain", "Dreg", "Dboth"}
        /\ ~last.ok =>
              /\ last.events = <<>>
              /\ last.total_penalty = None
              /\ self = last.pre

\* a failed call of the subclass on an object earlier calls had changed
C4_Witness ==
    /\ last.called /\ ~last.ok /\ last.phase = "Gall"
    /\ self.cls = "StyleGAN2Loss_noface"
    /\ self.running_g_loss # Zero
    /\ self.lambda_face_penalty # Plain(Num(10))

\* the path-length term ran in the last call
GplRan == Returned /\ last.pl_lengths # <<>>

\* C5 as stated: from pl_mean = 0 with pl_decay = 0.01 the stored pl_mean is
\* 0.01 * L and the penalty of the call is taken against the old pl_mean (0):
\* (length - 0)^2.
C5_Original ==
    (GplRan /\ last.pre.pl_mean = Zero /\ self.pl_decay = <<1, 100>>) =>
        /\ self.pl_mean = RDiv(Mean(last.pl_lengths), Num(100))
        /\ \A i \in 1..Len(last.pl_lengths) :
              last.pl_penalty[i] = Square(RSub(last.pl_lengths[i], last.pre.pl_mean))

\* C5: the stored pl_mean is old + pl_decay * (L - old), 0.01 * L from
\* pl_mean = 0 and pl_decay = 0.01, and the penalty of the same call is
\* (length - pl_mean after the update)^2.
C5_PenaltyUsesNewMean ==
    GplRan =>
        /\ self.pl_mean
              = RAdd(last.pre.pl_mean,
                     RMul(self.pl_decay, RSub(Mean(last.pl_lengths), last.pre.pl_mean)))
        /\ (last.pre.pl_mean = Zero /\ self.pl_decay = <<1, 100>>) =>
              self.pl_mean = RDiv(Mean(last.pl_lengths), Num(100))
        /\ \A i \in 1..Len(last.pl_lengths) :
              last.pl_penalty[i] = Square(RSub(last.pl_lengths[i], self.pl_mean))
        /\ (last.pre.pl_mean = Zero /\ self.pl_decay = <<1, 100>>
                /\ Len(last.pl_lengths) = 1) =>
              last.pl_penalty[1] = Square(RMul(<<99, 100>>, last.pl_lengths[1]))

\* the first path-length update, pl_decay = 0.01, a measured length of 2
C5_Witness ==
    /\ GplRan
    /\ last.pre.pl_mean = Zero /\ self.pl_decay = <<1, 100>>
    /\ last.pl_lengths = <<Num(2)>>
    /\ self.pl_mean = <<1, 50>>
    /\ last.pl_penalty = << <<9801, 2500>> >>

\* the feedback block of the subclass ran in the last call
FeedbackRan ==
    /\ Returned /\ self.cls = "StyleGAN2Loss_noface"
    /\ last.phase \in {"Gmain", "Gboth", "Dmain", "Dboth"}

\* lambda >= m
LambdaGeq(lambda, m) ==
    IF lambda.eps = 0
    THEN RLeq(RMul(m, lambda.den), lambda.num)
    ELSE GeqTimesEpsilon(RSub(lambda.num, RMul(m, lambda.den)), m)

\* C6: after a subclass call on Gmain, Gboth, Dmain or Dboth with a face
\* penalty > 0 (and running_g_loss >= 0), lambda_face_penalty is
\* running_g_loss / (face_penalty + 1e-8) when that is >= min_lambda and
\* min_lambda otherwise, so it is >= min_lambda.
C6_LambdaFloor ==
    (FeedbackRan /\ RLt(Zero, last.face_penalty[1]) /\ RLeq(Zero, self.running_g_loss)) =>
        LET ratio == [num |-> self.running_g_loss, den |-> last.face_penalty[1], eps |-> 1]
        IN  /\ LambdaGeq(ratio, self.min_lambda) => self.lambda_face_penalty = ratio
            /\ ~LambdaGeq(ratio, self.min_lambda) =>
                  self.lambda_face_penalty = Plain(self.min_lambda)
            /\ LambdaGeq(self.lambda_face_penalty, self.min_lambda)

\* a call that set lambda to the ratio after a call that set it to the floor
C6_Witness ==
    /\ FeedbackRan /\ RLt(Zero, last.face_penalty[1])
    /\ last.pre.lambda_face_penalty = Plain(<<1, 4>>)
    /\ self.lambda_face_penalty.eps = 1
    /\ self.lambda_face_penalty.num = self.running_g_loss

\* the detector gave no usable first probability for this image
NoScore(det) ==
    \/ det.raises
    \/ det.none
    \/ det.probs = <<>>
    \/ det.probs[1] = None

\* C7: in a subclass call that runs the feedback block the score list has one
\* entry per sample in batch order: 0.0 where the detector raised or returned
\* None, an empty list or a None first probability, the detector's first
\* probability elsewhere; the detector is asked once per sample and the call
\* returns.
C7_DetectorFailuresScoreZero ==
    (last.called /\ self.cls = "StyleGAN2Loss_noface"
        /\ last.phase \in {"Gmain", "Gboth", "Dmain", "Dboth"}) =>
        /\ last.ok
        /\ Len(last.face_probs) = Len(last.batch)
        /\ Count("detect", "face_detector") = Len(last.batch)
        /\ Count("report", "Loss/G/lambda_face_penalty") = 1
        /\ \A i \in 1..Len(last.batch) :
              IF NoScore(last.batch[i].det)
              THEN last.face_probs[i] = Zero
              ELSE last.face_probs[i] = last.batch[i].det.probs[1][1]

\* a batch whose second sample has a None first probability and whose other
\* samples are scored
C7_Witness ==
    /\ FeedbackRan
    /\ Len(last.batch) = 4
    /\ last.batch[2].det = DetNoneProb
    /\ last.face_probs = << <<9, 10>>, Zero, <<3, 5>>, <<51, 100>> >>

\* C8: the reported total is the sum of the mean values of exactly the terms
\* the phase selects; the other terms have no value and add nothing.
C8_TotalIsSumOfRunTerms ==
    Returned =>
        /\ Count("report", "Loss/Total_penalty") = 1
        /\ last.total_penalty # None
        /\ (last.loss_Gmain_value # None) <=> SelGmain
        /\ (last.loss_Gpl_value # None) <=> SelGpl
        /\ (last.loss_Dgen_value # None) <=> SelDmain
        /\ (last.loss_Dreal_value # None) <=> SelDmain
        /\ (last.loss_Dr1_value # None) <=> SelDr1
        /\ last.total_penalty[1]
              = RAdd(IF SelGmain THEN last.loss_Gmain_value[1] ELSE Zero,
                RAdd(IF SelGpl THEN last.loss_Gpl_value[1] ELSE Zero,
                RAdd(IF SelDmain THEN last.loss_Dgen_value[1] ELSE Zero,
                RAdd(IF SelDmain THEN last.loss_Dreal_value[1] ELSE Zero,
                     IF SelDr1 THEN last.loss_Dr1_value[1] ELSE Zero))))

\* a Dmain call with r1_gamma = 0 on the batch <<S1, S2>>: Dgen 3/2, Dreal 3/4
C8_Witness ==
    /\ Returned /\ last.phase = "Dmain" /\ last.pre.r1_gamma = Zero
    /\ last.batch = <<S1, S2>>
    /\ last.loss_Dr1_value = None
    /\ last.loss_Dgen_value = Some(<<3, 2>>)
    /\ last.loss_Dreal_value = Some(<<3, 4>>)
    /\ last.total_penalty = Some(<<9, 4>>)

\* C9: the blur sigma of a call is blur_init_sigma * (1 - cur_nimg /
\* (blur_fade_kimg * 1000)) before the end of the fade and 0 from then on, and
\* 0 when blur_fade_kimg is not > 0; for blur_init_sigma >= 0 it is never
\* negative and no larger than that of an earlier call with a smaller or equal
\* cur_nimg.
C9_BlurSchedule ==
    Returned =>
        LET sigma == last.blur_sigma[1]
            fade == self.blur_fade_kimg
            images == RMul(fade, Num(1000))
        IN  /\ ~RLt(Zero, fade) => sigma = Zero
            /\ (RLt(Zero, fade) /\ RLeq(images, Num(last.cur_nimg))) => sigma = Zero
            /\ (RLt(Zero, fade) /\ RLt(Num(last.cur_nimg), images)) =>
                  sigma = RMul(self.blur_init_sigma,
                               RSub(One, RDiv(Num(last.cur_nimg), images)))
            /\ RLeq(Zero, self.blur_init_sigma) =>
                  /\ RLeq(Zero, sigma)
                  /\ (last.prev_called /\ last.prev_nimg <= last.cur_nimg) =>
                        RLeq(sigma, last.prev_sigma[1])
            /\ (self.blur_init_sigma = Num(2) /\ fade = One) =>
                  /\ last.cur_nimg = 500 => sigma = One
                  /\ last.cur_nimg = 1000 => sigma = Zero
                  /\ last.cur_nimg = 2000 => sigma = Zero

\* blur_init_sigma = 2, blur_fade_kimg = 1: sigma 1.0 at 500, then 0.0 at 2000
C9_Witness ==
    /\ Returned /\ last.prev_called
    /\ self.blur_init_sigma = Num(2) /\ self.blur_fade_kimg = One
    /\ last.prev_nimg = 500 /\ last.prev_sigma = Some(One)
    /\ last.cur_nimg = 2000 /\ last.blur_sigma = Some(Zero)

\* smoothing * old + (1 - smoothing) * current
Smoothed(old, current) ==
    RAdd(RMul(self.smoothing, old), RMul(RSub(One, self.smoothing), current))

\* C10: in a subclass call, on Greg and Dreg the three running values and
\* lambda_face_penalty keep their values; on Gmain and Gboth running_d_loss
\* keeps its value and running_g_loss and running_face_penalty are smoothed
\* once; on Dmain and Dboth running_d_loss is smoothed once; by the phase as
\* passed, whatever pl_weight and r1_gamma.
C10_AdaptiveStateByPhase ==
    (Returned /\ self.cls = "StyleGAN2Loss_noface") =>
        /\ last.phase \in {"Greg", "Dreg"} =>
              /\ self.running_g_loss = last.pre.running_g_loss
              /\ self.running_d_loss = last.pre.running_d_loss
              /\ self.running_face_penalty = last.pre.running_face_penalty
              /\ self.lambda_face_penalty = last.pre.lambda_face_penalty
        /\ last.phase \in {"Gmain", "Gboth"} =>
              /\ self.running_d_loss = last.pre.running_d_loss
              /\ self.running_g_loss
                    = Smoothed(last.pre.running_g_loss, Mean(Column(last.batch, "gl")))
              /\ self.running_face_penalty
                    = Smoothed(last.pre.running_face_penalty, last.face_penalty[1])
        /\ last.phase \in {"Dmain", "Dboth"} =>
              self.running_d_loss
                  = Smoothed(last.pre.running_d_loss,
                             RAdd(Mean(Column(last.batch, "dr")),
                                  Mean(Column(last.batch, "dg"))))

\* a Gboth call with pl_weight = 0 after a Dmain or Dboth call
C10_Witness ==
    /\ Returned /\ self.cls = "StyleGAN2Loss_noface"
    /\ last.phase = "Gboth" /\ last.pre.pl_weight = Zero
    /\ last.pre.running_d_loss # Zero
    /\ self.running_d_loss = last.pre.running_d_loss
    /\ self.running_g_loss # last.pre.running_g_loss

====
